---- MODULE Spec2Model ----
(***************************************************************************)
(* Marketplace payment splitting and order settlement of EcommerceAI:      *)
(* the commission calculator (SiteSettings), cart checkout (purchase_cart, *)
(* purchase_product), settlement (purchase_success_callback) and order     *)
(* numbering (Order.generate_order_number).                                *)
(*                                                                         *)
(* Money is kept in cents (a Decimal with two places is cents / 100); the  *)
(* commission percentage is kept in hundredths of a percent (a Decimal     *)
(* with two places, 0.00 .. 100.00, is 0 .. 10000).                        *)
(***************************************************************************)
EXTENDS Integers, Sequences, FiniteSets, TLC

VARIABLES
    user,       \* User rows: stripe_account_id, stripe_connect_status
    settings,   \* the SiteSettings singleton
    product,    \* product rows: seller, price, kind, is_active, exists
    cart,       \* Cart/CartItem rows per shopper, newest line first
    sessions,   \* the payment provider's checkout sessions, by session id
    db,         \* committed Order, OrderItem, Notification, ServiceChat rows
    tx,         \* rows written by each running request, not yet committed
    req,        \* each running purchase_success_callback request
    transfers,  \* stripe.Transfer.create calls made so far (provider side)
    nextId,     \* the Order primary-key sequence
    aborts,     \* requests that ended without commit so far
    last,       \* the most recent response of purchase_success_callback
    lg,         \* commission calculator under test: inputs and results
    sp,         \* cart commission split under test: inputs and results
    wh,         \* stripe_webhook: registration columns of User, last event
    co,         \* a purchase_cart request between its queries
    ad,         \* running add_to_cart requests, and the adds answered so far
    nm,         \* a call of Order.generate_order_number
    fl          \* a failed payout transfer being handled

vars == <<user, settings, product, cart, sessions, db, tx, req, transfers,
          nextId, aborts, last, lg, sp, wh, co, ad, nm, fl>>

marketVars == <<user, settings, product, cart, sessions, db, tx, req,
                transfers, nextId, aborts, last>>

----------------------------------------------------------------------------
(* Bounds of the model *)

MaxGross == 40
MaxQty == 1
MaxSessions == 1
MaxAborts == 1
MaxLinePrice == 6
MaxLines == 2

(* Percentages (hundredths of a percent) the calculator is tried with *)
PctSet == {0, 1, 500, 1000, 2000, 2500, 3333, 5000, 7500, 9999, 10000}

----------------------------------------------------------------------------
(* Decimal arithmetic *)

\* Decimal('0.01') quantization in the default context: ROUND_HALF_EVEN
RoundHalfEven(num, den) ==
    LET q == num \div den
        r == num % den
    IN  IF 2 * r < den THEN q
        ELSE IF 2 * r > den THEN q + 1
        ELSE IF q % 2 = 0 THEN q ELSE q + 1

\* str(Decimal) of an amount with two places: <<units, hundredths>>
DecimalStr(cents) == <<cents \div 100, cents % 100>>

\* Decimal(str) of such a string, back in cents
DecimalParse(s) == s[1] * 100 + s[2]

----------------------------------------------------------------------------
(* SiteSettings: the commission calculator *)

get_commission_amount_ignoring_flag(s, total_amount) ==
    RoundHalfEven(total_amount * s.commission_percentage, 10000)

get_commission_amount(s, total_amount) ==
    IF ~s.commission_enabled THEN 0
    ELSE RoundHalfEven(total_amount * s.commission_percentage, 10000)

get_seller_amount_rounded(s, total_amount) ==
    IF ~s.commission_enabled THEN total_amount
    ELSE RoundHalfEven(total_amount * (10000 - s.commission_percentage), 10000)

get_seller_amount(s, total_amount) ==
    total_amount - get_commission_amount(s, total_amount)

----------------------------------------------------------------------------
(* The marketplace: users, products, settings *)

Users == {1, 2, 3}
Shoppers == {1}
Callers == {1, 2}
Sellers == {2, 3}
Products == {"a", "b"}
Procs == {1, 2}

NoAccount == <<>>
NoSplit == [application_fee_amount |-> -1, destination |-> NoAccount]
NoProduct == "none"
NoNumber == <<>>

\* stripe fields of a User row: never onboarded, onboarding started
\* (create_stripe_connect_account), onboarding completed (stripe_connect_return)
BuyerProfile ==
    [stripe_account_id |-> NoAccount, stripe_connect_status |-> "not_started"]
Pending(u) ==
    [stripe_account_id |-> <<"acct", u>>, stripe_connect_status |-> "pending"]
Connected(u) ==
    [stripe_account_id |-> <<"acct", u>>, stripe_connect_status |-> "active"]

ProductRows ==
    [ a |-> [seller |-> 2, price |-> 1000, kind |-> "book",
             is_active |-> TRUE, exists |-> TRUE],
      b |-> [seller |-> 3, price |-> 2550, kind |-> "service",
             is_active |-> TRUE, exists |-> TRUE] ]

MarketPcts == {1000}

EmptyRows == [orders |-> {}, items |-> {}, notes |-> {}, chats |-> {}]

IdleReq == [pc |-> "idle", user |-> 0, sid |-> 0, order |-> 0,
            order_number |-> NoNumber, price |-> 0, j |-> 0]

----------------------------------------------------------------------------
(* Sequence helpers *)

RECURSIVE SumSeq(_)
SumSeq(s) == IF s = <<>> THEN 0 ELSE Head(s) + SumSeq(Tail(s))

RECURSIVE Distinct(_, _)
\* the distinct non-null values of s, in order of first appearance
Distinct(s, seen) ==
    IF s = <<>> THEN <<>>
    ELSE IF Head(s) = 0 \/ Head(s) \in seen THEN Distinct(Tail(s), seen)
    ELSE <<Head(s)>> \o Distinct(Tail(s), seen \cup {Head(s)})

Max(S) == CHOOSE x \in S : \A y \in S : y <= x
Min(S) == CHOOSE x \in S : \A y \in S : x <= y

----------------------------------------------------------------------------
(* Order numbers: ORD-YYYY-MM-NNNNNN, kept as <<"YYYY-MM", digits>> *)

Period == "2026-11"

max_attempts == 100
max_fallback_attempts == 1000

RECURSIVE Digits(_)
\* the decimal digits of n, most significant first
Digits(n) == IF n < 10 THEN <<n>> ELSE Digits(n \div 10) \o <<n % 10>>

RECURSIVE ZeroPad(_, _)
ZeroPad(ds, width) == IF Len(ds) >= width THEN ds ELSE ZeroPad(<<0>> \o ds, width)

\* f"ORD-{year}-{month}-{n:06d}"
FormatOrderNumber(period, n) == <<period, ZeroPad(Digits(n), 6)>>

RECURSIVE DigitsToInt(_)
DigitsToInt(ds) ==
    IF ds = <<>> THEN 0 ELSE DigitsToInt(SubSeq(ds, 1, Len(ds) - 1)) * 10 + ds[Len(ds)]

\* int(order_num.split('-')[-1])
SeqPart(order_number) == DigitsToInt(order_number[2])

generate_order_number_all_months(visible) ==
    {FormatOrderNumber(Period, Max({SeqPart(n) : n \in visible} \cup {0}) + 1)}

\* Order.generate_order_number over the order numbers the caller's transaction
\* can see: the set of values the call may return (empty: it raises ValueError)
generate_order_number(visible) ==
    LET existing == {n \in visible : n[1] = Period}
        next_seq == IF existing # {} THEN Max({SeqPart(n) : n \in existing} \cup {0}) + 1
                    ELSE 1
        free     == {a \in 0 .. max_attempts - 1 :
                        FormatOrderNumber(Period, next_seq + a) \notin visible}
    IN  IF free # {} THEN {FormatOrderNumber(Period, next_seq + Min(free))}
        ELSE {FormatOrderNumber(Period, r) : r \in {x \in 1 .. 999999 :
                        FormatOrderNumber(Period, x) \notin visible}}

----------------------------------------------------------------------------
(* Cart *)

CartProducts(c) == {c[i].product : i \in 1 .. Len(c)}

LineOf(c, p) == CHOOSE i \in 1 .. Len(c) : c[i].product = p

\* add_to_cart: POST by a logged-in user for an active product
add_to_cart(u, p) ==
    /\ u \in Shoppers
    /\ product[p].exists /\ product[p].is_active
    /\ product[p].seller # u
    /\ IF p \in CartProducts(cart[u])
       THEN /\ cart[u][LineOf(cart[u], p)].quantity < MaxQty
            /\ cart' = [cart EXCEPT ![u][LineOf(cart[u], p)].quantity = @ + 1]
       ELSE cart' = [cart EXCEPT ![u] = <<[product |-> p, quantity |-> 1]>> \o @]
    /\ UNCHANGED <<user, settings, product, sessions, db, tx, req, transfers,
                   nextId, aborts, last, lg, sp, wh, co, ad, nm, fl>>

\* delete_book / delete_course / delete_webinar / delete_service: the owning
\* seller deletes the product row; cart lines that point at it stay
delete_product(p) ==
    /\ product[p].exists
    /\ product' = [product EXCEPT ![p].exists = FALSE]
    /\ UNCHANGED <<user, settings, cart, sessions, db, tx, req, transfers,
                   nextId, aborts, last, lg, sp, wh, co, ad, nm, fl>>

----------------------------------------------------------------------------
(* Checkout session builders *)

\* the cart lines as purchase_cart reads them: cart_item.content_object.price
\* is the product's price now
CartLines(c) ==
    [i \in 1 .. Len(c) |-> [object_id |-> c[i].product,
                            quantity  |-> c[i].quantity,
                            price     |-> product[c[i].product].price,
                            seller_id |-> product[c[i].product].seller]]

\* cart_items_data of purchase_cart: one entry per cart line, price as str
CartItemsData(lines) ==
    [i \in 1 .. Len(lines) |-> [object_id |-> lines[i].object_id,
                                quantity  |-> lines[i].quantity,
                                price     |-> DecimalStr(lines[i].price),
                                seller_id |-> lines[i].seller_id]]

\* total_amount of purchase_cart: price times quantity over the lines
CartTotal(lines) ==
    SumSeq([i \in 1 .. Len(lines) |-> lines[i].price * lines[i].quantity])

\* total_commission of purchase_cart: the commission of every line, summed
CartCommission(s, lines) ==
    SumSeq([i \in 1 .. Len(lines) |->
                get_commission_amount(s, lines[i].price * lines[i].quantity)])

\* the payment strategy of purchase_cart: instant split for a single seller
\* whose Stripe Connect status is active
CartSplit(items, total_commission) ==
    LET unique_sellers == {items[i].seller_id : i \in 1 .. Len(items)} \ {0}
    IN  IF Cardinality(unique_sellers) = 1
        THEN LET single_seller == CHOOSE x \in unique_sellers : TRUE
             IN  IF /\ user[single_seller].stripe_connect_status = "active"
                    /\ user[single_seller].stripe_account_id # NoAccount
                 THEN [application_fee_amount |-> total_commission,
                       destination |-> user[single_seller].stripe_account_id]
                 ELSE NoSplit
        ELSE NoSplit

\* line_items of purchase_cart: unit_amount = int(product.price * 100)
CartLineItems(lines) ==
    [i \in 1 .. Len(lines) |-> [unit_amount |-> lines[i].price,
                                quantity    |-> lines[i].quantity]]

\* amount_total of a checkout session: the provider's sum over its line items
AmountTotal(line_items) ==
    SumSeq([i \in 1 .. Len(line_items) |->
                line_items[i].unit_amount * line_items[i].quantity])

\* stripe.checkout.Session.create(**session_params) of purchase_cart
CartSession(u, items, total_commission, line_items) ==
    [user_id |-> u,
     purchase_type |-> "cart",
     product_id |-> NoProduct,
     cart_items |-> items,
     line_items |-> line_items,
     amount_total |-> AmountTotal(line_items),
     commission |-> DecimalStr(total_commission),
     payment_intent_data |-> CartSplit(items, total_commission),
     payment_status |-> "unpaid"]

\* purchase_cart with no write of another request between its queries
purchase_cart(u) ==
    /\ u \in Shoppers
    /\ Len(sessions) < MaxSessions
    /\ cart[u] # <<>>
    /\ \A i \in 1 .. Len(cart[u]) : product[cart[u][i].product].exists
    /\ LET lines == CartLines(cart[u])
       IN  sessions' = Append(sessions,
               CartSession(u, CartItemsData(lines), CartCommission(settings, lines),
                           CartLineItems(lines)))
    /\ UNCHANGED <<user, settings, product, cart, db, tx, req, transfers,
                   nextId, aborts, last, lg, sp, wh, co, ad, nm, fl>>

\* the payment_intent_data of purchase_product
ProductSplit(seller, commission_cents) ==
    IF /\ settings.commission_enabled
       /\ user[seller].stripe_account_id # NoAccount
       /\ commission_cents > 0
       /\ settings.platform_stripe_account_id # NoAccount
    THEN [application_fee_amount |-> commission_cents,
          destination |-> user[seller].stripe_account_id]
    ELSE NoSplit

\* stripe.checkout.Session.create(**session_params) of purchase_product
ProductSession(u, p) ==
    LET commission_amount == get_commission_amount(settings, product[p].price)
        line_items == <<[unit_amount |-> product[p].price, quantity |-> 1]>>
    IN  [user_id |-> u,
         purchase_type |-> "single",
         product_id |-> p,
         cart_items |-> <<>>,
         line_items |-> line_items,
         amount_total |-> AmountTotal(line_items),
         commission |-> DecimalStr(commission_amount),
         payment_intent_data |-> ProductSplit(product[p].seller, commission_amount),
         payment_status |-> "unpaid"]

purchase_product(u, p) ==
    /\ u \in Shoppers
    /\ Len(sessions) < MaxSessions
    /\ product[p].exists /\ product[p].is_active
    /\ product[p].seller # u
    /\ user[product[p].seller].stripe_account_id # NoAccount
    /\ sessions' = Append(sessions, ProductSession(u, p))
    /\ UNCHANGED <<user, settings, product, cart, db, tx, req, transfers,
                   nextId, aborts, last, lg, sp, wh, co, ad, nm, fl>>

\* the buyer pays on the provider's hosted page
Pay(s) ==
    /\ s \in 1 .. Len(sessions)
    /\ sessions[s].payment_status = "unpaid"
    /\ sessions' = [sessions EXCEPT ![s].payment_status = "paid"]
    /\ UNCHANGED <<user, settings, product, cart, db, tx, req, transfers,
                   nextId, aborts, last, lg, sp, wh, co, ad, nm, fl>>

----------------------------------------------------------------------------
(* Settlement: purchase_success_callback, one request per process.          *)
(* ATOMIC_REQUESTS wraps the view in one transaction: rows written by the   *)
(* request are in tx[p] until the view returns; they are committed unless a *)
(* database error marked the transaction for rollback. The view catches     *)
(* every exception and returns a redirect, so an exception that is not a    *)
(* database error ends in a commit of what was written so far.              *)

\* rows a query of request p sees (READ COMMITTED: committed rows and its own)
Visible(p, f) == db[f] \cup tx[p][f]

IsPaid_unchecked(s) == TRUE

\* checkout_session.payment_status != 'paid' -> return
IsPaid(s) == sessions[s].payment_status = "paid"

\* user_id != request.user.id -> return
UserMatches_unchecked(s, u) == TRUE

UserMatches(s, u) == sessions[s].user_id = u

\* Order.objects.filter(user=request.user, stripe_session_id=session_id).first()
ExistingOrders(p, u, s) ==
    {o \in Visible(p, "orders") : o.user = u /\ o.stripe_session_id = s}

\* total_amount of the cart branch: sum(Decimal(price) * quantity)
ItemsTotal(items) ==
    SumSeq([i \in 1 .. Len(items) |-> DecimalParse(items[i].price) * items[i].quantity])

\* the most recent response: who called, for which session, which Order row
\* the request inserted (0: none) and how the view ended
Returned(u, s, order, result) ==
    [user |-> u, sid |-> s, order |-> order, result |-> result]

\* product.price of the product row the single branch fetched
LookupPrice(s) ==
    IF sessions[s].purchase_type = "single"
    THEN product[sessions[s].product_id].price ELSE 0

\* the view up to Order.objects.create: the checks, the product lookup of a
\* single purchase and generate_order_number
SettleBegin(p, u, s) ==
    /\ req[p].pc = "idle"
    /\ u \in Callers
    /\ s \in 1 .. Len(sessions)
    /\ UNCHANGED <<user, settings, product, cart, sessions, db, tx, transfers,
                   nextId, aborts, lg, sp, wh, co, ad, nm, fl>>
    /\ IF ~IsPaid(s)
         THEN req' = [req EXCEPT ![p] = IdleReq] /\ last' = Returned(u, s, 0, "not_paid")
       ELSE IF ~UserMatches(s, u)
         THEN req' = [req EXCEPT ![p] = IdleReq] /\ last' = Returned(u, s, 0, "wrong_user")
       ELSE IF ExistingOrders(p, u, s) # {}
         THEN req' = [req EXCEPT ![p] = IdleReq] /\ last' = Returned(u, s, 0, "already")
       ELSE IF /\ sessions[s].purchase_type = "single"
               /\ ~product[sessions[s].product_id].exists
         THEN req' = [req EXCEPT ![p] = IdleReq] /\ last' = Returned(u, s, 0, "error")
       ELSE \E n \in generate_order_number(
                        {o.order_number : o \in Visible(p, "orders")}) :
              /\ req' = [req EXCEPT ![p] = [IdleReq EXCEPT !.pc = "insert",
                                               !.user = u, !.sid = s,
                                               !.price = LookupPrice(s),
                                               !.order_number = n]]
              /\ last' = last

\* Order.objects.create: the INSERT waits for a running transaction that holds
\* the same stripe_session_id or order_number, and fails with IntegrityError
\* (the request is rolled back) when a committed row holds one of them
SettleInsert(p) ==
    /\ req[p].pc = "insert"
    /\ \A q \in Procs \ {p} : \A o \in tx[q].orders :
          /\ o.stripe_session_id # req[p].sid
          /\ o.order_number # req[p].order_number
    /\ IF \E o \in db.orders : \/ o.stripe_session_id = req[p].sid
                               \/ o.order_number = req[p].order_number
       THEN /\ req' = [req EXCEPT ![p] = IdleReq]
            /\ last' = Returned(req[p].user, req[p].sid, 0, "integrity_error")
            /\ tx' = [tx EXCEPT ![p] = EmptyRows]
            /\ nextId' = nextId
       ELSE /\ tx' = [tx EXCEPT ![p].orders = @ \cup
                 {[id |-> nextId,
                   user |-> req[p].user,
                   order_number |-> req[p].order_number,
                   total_amount |->
                      IF sessions[req[p].sid].purchase_type = "single"
                      THEN req[p].price
                      ELSE ItemsTotal(sessions[req[p].sid].cart_items),
                   status |-> "completed",
                   stripe_session_id |-> req[p].sid]}]
            /\ req' = [req EXCEPT ![p].pc = "items", ![p].order = nextId]
            /\ nextId' = nextId + 1
            /\ last' = last
    /\ UNCHANGED <<user, settings, product, cart, sessions, db, transfers, aborts, lg, sp, wh, co, ad, nm, fl>>

\* seller_totals of the payout loop: the sellers in order of first appearance
PayoutSellers(items) == Distinct([i \in 1 .. Len(items) |-> items[i].seller_id], {})

\* seller_totals[seller_id]['total']
SellerTotal(items, sel) ==
    SumSeq([i \in 1 .. Len(items) |->
              IF items[i].seller_id = sel
              THEN DecimalParse(items[i].price) * items[i].quantity ELSE 0])

\* seller_payout = seller_total - get_commission_amount(seller_total)
SellerPayout(s, items, sel) ==
    SellerTotal(items, sel) - get_commission_amount(s, SellerTotal(items, sel))

\* the rows the item loop of the cart branch writes for lines 1 .. n
ItemRows(p, items, n) ==
    [orders |-> {},
     items  |-> {[order |-> req[p].order, line |-> i,
                  object_id |-> items[i].object_id,
                  quantity |-> items[i].quantity,
                  price |-> DecimalParse(items[i].price)] : i \in 1 .. n},
     notes  |-> {[user |-> items[i].seller_id, title |-> "New Sale!",
                  order |-> req[p].order] : i \in {k \in 1 .. n : items[k].seller_id # 0}},
     chats  |-> {[buyer |-> req[p].user, seller |-> product[items[i].object_id].seller,
                  service |-> items[i].object_id] :
                    i \in {k \in 1 .. n : product[items[k].object_id].kind = "service"}}
                \ db.chats]

Merge(a, b) == [f \in DOMAIN a |-> a[f] \cup b[f]]

\* the first line whose product row is gone (get_object_for_this_type raises
\* DoesNotExist), or 0
FirstMissing(items) ==
    LET missing == {i \in 1 .. Len(items) : ~product[items[i].object_id].exists}
    IN  IF missing = {} THEN 0 ELSE Min(missing)

\* does the view run the payout loop
PayoutPhase(s) == settings.commission_enabled /\ IsPaid(s)

\* after Order.objects.create: the single branch to its end, or the item loop
\* of the cart branch
SettleItems(p) ==
    /\ req[p].pc = "items"
    /\ LET s == req[p].sid
           u == req[p].user
           items == sessions[s].cart_items
       IN  IF sessions[s].purchase_type = "single"
           THEN LET pid == sessions[s].product_id
                    chat == [buyer |-> u, seller |-> product[pid].seller, service |-> pid]
                    rows == [orders |-> {},
                             items |-> {[order |-> req[p].order, line |-> 1,
                                         object_id |-> pid, quantity |-> 1,
                                         price |-> req[p].price]},
                             notes |-> {[user |-> u, title |-> "Order Placed Successfully!",
                                         order |-> req[p].order],
                                        [user |-> product[pid].seller, title |-> "New Sale!",
                                         order |-> req[p].order]}
                                       \cup (IF product[pid].kind = "service" /\ chat \notin db.chats
                                             THEN {[user |-> u, title |-> "Chat Opened!",
                                                    order |-> req[p].order]}
                                             ELSE {}),
                             chats |-> IF product[pid].kind = "service" THEN {chat} ELSE {}]
                IN  /\ db' = Merge(db, Merge(tx[p], rows))
                    /\ tx' = [tx EXCEPT ![p] = EmptyRows]
                    /\ req' = [req EXCEPT ![p] = IdleReq]
                    /\ last' = Returned(u, s, req[p].order, "created")
           ELSE IF FirstMissing(items) # 0
           THEN /\ db' = Merge(db, Merge(tx[p], ItemRows(p, items, FirstMissing(items) - 1)))
                /\ tx' = [tx EXCEPT ![p] = EmptyRows]
                /\ req' = [req EXCEPT ![p] = IdleReq]
                /\ last' = Returned(u, s, req[p].order, "error")
           ELSE /\ tx' = [tx EXCEPT ![p] = Merge(tx[p], ItemRows(p, items, Len(items)))]
                /\ req' = [req EXCEPT ![p].pc = IF PayoutPhase(s) THEN "payout" ELSE "finish",
                                      ![p].j = 1]
                /\ db' = db
                /\ last' = last
    /\ UNCHANGED <<user, settings, product, cart, sessions, transfers, nextId,
                   aborts, lg, sp, wh, co, ad, nm, fl>>

TransferOutcomes == {"ok", "insufficient_funds"}

NextPayoutStep_stop_on_failure(outcome, j, n) ==
    IF outcome \notin {"ok", "skipped"} \/ j >= n THEN "finish" ELSE "payout"

\* where the payout loop goes after the j-th of n sellers: a StripeError of
\* the transfer is caught inside the loop body, so the outcome plays no part
NextPayoutStep(outcome, j, n) == IF j >= n THEN "finish" ELSE "payout"

\* the seller notification of one transfer attempt
PayoutTitle(outcome) ==
    CASE outcome = "ok" -> "Payment Received!"
      [] outcome = "no_such_destination" -> "New Sale! (Payout Pending)"
      [] outcome = "insufficient_funds" -> "New Sale! (Payout Processing)"
      [] OTHER -> "New Sale! (Payout Issue)"

\* does the payout loop call stripe.Transfer.create for this seller
TransferDue(seller_payout_cents, sel) ==
    seller_payout_cents > 0 /\ user[sel].stripe_account_id # NoAccount

\* one round of the payout loop: the transfer to the j-th seller
SettlePayout(p) ==
    /\ req[p].pc = "payout"
    /\ LET s == req[p].sid
           items == sessions[s].cart_items
           sellers == PayoutSellers(items)
           sel == sellers[req[p].j]
           seller_payout == SellerPayout(settings, items, sel)
       IN  IF TransferDue(seller_payout, sel)
           THEN \E outcome \in TransferOutcomes :
                  /\ transfers' = Append(transfers,
                         [sid |-> s, order |-> req[p].order, seller |-> sel,
                          amount |-> seller_payout, outcome |-> outcome])
                  /\ tx' = [tx EXCEPT ![p].notes = @ \cup
                         {[user |-> sel, title |-> PayoutTitle(outcome),
                           order |-> req[p].order]}]
                  /\ req' = [req EXCEPT ![p].j = @ + 1,
                         ![p].pc = NextPayoutStep(outcome, req[p].j, Len(sellers))]
           ELSE /\ UNCHANGED <<transfers, tx>>
                /\ req' = [req EXCEPT ![p].j = @ + 1,
                       ![p].pc = NextPayoutStep("skipped", req[p].j, Len(sellers))]
    /\ UNCHANGED <<user, settings, product, cart, sessions, db, nextId, aborts, last, lg, sp, wh, co, ad, nm, fl>>

\* the end of the cart branch: buyer notifications, the cart is cleared, the
\* view returns and the request's transaction commits
SettleFinish(p) ==
    /\ req[p].pc = "finish"
    /\ LET u == req[p].user
           rows == [orders |-> {}, items |-> {}, chats |-> {},
                    notes |-> {[user |-> u, title |-> "Order Placed Successfully!",
                                order |-> req[p].order]}
                              \cup (IF tx[p].chats # {}
                                    THEN {[user |-> u, title |-> "Service Chat Opened!",
                                           order |-> req[p].order]}
                                    ELSE {})]
       IN  /\ db' = Merge(db, Merge(tx[p], rows))
           /\ tx' = [tx EXCEPT ![p] = EmptyRows]
           /\ cart' = IF u \in Shoppers THEN [cart EXCEPT ![u] = <<>>] ELSE cart
           /\ req' = [req EXCEPT ![p] = IdleReq]
           /\ last' = Returned(u, req[p].sid, req[p].order, "created")
    /\ UNCHANGED <<user, settings, product, sessions, transfers, nextId, aborts, lg, sp, wh, co, ad, nm, fl>>

\* a request that has written rows ends without commit: a database error
\* marks the transaction for rollback, or the worker dies. Transfers already
\* made at the provider stay made.
SettleAbort(p) ==
    /\ req[p].pc \in {"items", "payout", "finish"}
    /\ aborts < MaxAborts
    /\ aborts' = aborts + 1
    /\ tx' = [tx EXCEPT ![p] = EmptyRows]
    /\ req' = [req EXCEPT ![p] = IdleReq]
    /\ last' = Returned(req[p].user, req[p].sid, req[p].order, "aborted")
    /\ UNCHANGED <<user, settings, product, cart, sessions, db, transfers, nextId, lg, sp, wh, co, ad, nm, fl>>

----------------------------------------------------------------------------
(* The marketplace specification *)

NoPolicy == [commission_enabled |-> FALSE, commission_percentage |-> 0]

LedgerIdle == [pc |-> "off", gross |-> 0, commission |-> 0, seller_amount |-> 0,
               policy |-> NoPolicy]

SplitIdle == [pc |-> "off", lines |-> <<>>, items |-> <<>>, total_amount |-> 0,
              total_commission |-> 0, order_total |-> 0, payouts |-> <<>>,
              policy |-> NoPolicy]

AddIdle == [req |-> [p \in Procs |-> [pc |-> "idle", product |-> NoProduct,
                                       quantity |-> 0]],
            answered |-> [p \in Products |-> 0]]

NumberIdle == [pc |-> "off", visible |-> {}, next_seq |-> 0, attempt |-> 0,
               result |-> NoNumber]

FailureIdle == [pc |-> "off", message |-> {}, kind |-> "none", title |-> "none",
                levels |-> {}]

CheckoutIdle == [pc |-> "idle", user |-> 0, items |-> <<>>, total_amount |-> 0,
                 total_commission |-> 0]

\* User.account_status / User.registration_paid as created, no event received
NewAccount == [account_status |-> "pending", registration_paid |-> FALSE]

HookIdle == [account |-> [u \in Users |-> NewAccount],
             event |-> <<>>, status |-> 0]

Init ==
    /\ \E profile2 \in {Connected(2), Pending(2)} :
         user = [u \in Users |-> IF u = 2 THEN profile2
                                 ELSE IF u = 3 THEN Pending(3) ELSE BuyerProfile]
    /\ settings \in [commission_enabled : BOOLEAN,
                     commission_percentage : MarketPcts,
                     platform_stripe_account_id : {<<"acct", 0>>}]
    /\ product = ProductRows
    /\ cart = [u \in Shoppers |-> <<>>]
    /\ sessions = <<>>
    /\ db = EmptyRows
    /\ tx = [p \in Procs |-> EmptyRows]
    /\ req = [p \in Procs |-> IdleReq]
    /\ transfers = <<>>
    /\ nextId = 1
    /\ aborts = 0
    /\ last = Returned(0, 0, 0, "none")
    /\ lg = LedgerIdle
    /\ sp = SplitIdle
    /\ wh = HookIdle
    /\ co = CheckoutIdle
    /\ ad = AddIdle
    /\ nm = NumberIdle
    /\ fl = FailureIdle

Next ==
    \/ \E u \in Shoppers, p \in Products : add_to_cart(u, p)
    \/ \E p \in Products : delete_product(p)
    \/ \E u \in Shoppers : purchase_cart(u)
    \/ \E u \in Shoppers, p \in Products : purchase_product(u, p)
    \/ \E s \in 1 .. MaxSessions : Pay(s)
    \/ \E p \in Procs, u \in Callers, s \in 1 .. MaxSessions : SettleBegin(p, u, s)
    \/ \E p \in Procs : SettleInsert(p)
    \/ \E p \in Procs : SettleItems(p)
    \/ \E p \in Procs : SettlePayout(p)
    \/ \E p \in Procs : SettleFinish(p)
    \/ \E p \in Procs : SettleAbort(p)

Spec == Init /\ [][Next]_vars

----------------------------------------------------------------------------
(* The commission calculator on its own: every gross amount up to MaxGross  *)
(* under every policy of PctSet, enabled or disabled                        *)

MarketIdle ==
    /\ user = [u \in Users |-> BuyerProfile]
    /\ settings = [commission_enabled |-> FALSE, commission_percentage |-> 0,
                   platform_stripe_account_id |-> NoAccount]
    /\ product = ProductRows
    /\ cart = [u \in Shoppers |-> <<>>]
    /\ sessions = <<>>
    /\ db = EmptyRows
    /\ tx = [p \in Procs |-> EmptyRows]
    /\ req = [p \in Procs |-> IdleReq]
    /\ transfers = <<>>
    /\ nextId = 1
    /\ aborts = 0
    /\ last = Returned(0, 0, 0, "none")

InitLedger ==
    /\ MarketIdle
    /\ sp = SplitIdle
    /\ wh = HookIdle
    /\ co = CheckoutIdle
    /\ ad = AddIdle
    /\ nm = NumberIdle
    /\ fl = FailureIdle
    /\ lg \in [pc : {"input"}, gross : 0 .. MaxGross, commission : {0},
               seller_amount : {0},
               policy : [commission_enabled : BOOLEAN, commission_percentage : PctSet]]

LedgerCommission ==
    /\ lg.pc = "input"
    /\ lg' = [lg EXCEPT !.pc = "commission",
                        !.commission = get_commission_amount(lg.policy, lg.gross)]
    /\ UNCHANGED <<marketVars, sp, wh, co, ad, nm, fl>>

LedgerSeller ==
    /\ lg.pc = "commission"
    /\ lg' = [lg EXCEPT !.pc = "done",
                        !.seller_amount = get_seller_amount(lg.policy, lg.gross)]
    /\ UNCHANGED <<marketVars, sp, wh, co, ad, nm, fl>>

NextLedger == LedgerCommission \/ LedgerSeller

SpecLedger == InitLedger /\ [][NextLedger]_vars

----------------------------------------------------------------------------
(* The money split of one cart purchase on its own: the total commission    *)
(* purchase_cart embeds in the session, and the payouts the payout loop of  *)
(* purchase_success_callback computes from the embedded items               *)

SplitPcts == {1000, 2500, 5000}

SplitLine == [object_id : {"x"}, quantity : 1 .. MaxQty, price : 1 .. MaxLinePrice,
              seller_id : Sellers]

InitSplit ==
    /\ MarketIdle
    /\ lg = LedgerIdle
    /\ wh = HookIdle
    /\ co = CheckoutIdle
    /\ ad = AddIdle
    /\ nm = NumberIdle
    /\ fl = FailureIdle
    /\ \E n \in 1 .. MaxLines :
         sp \in [pc : {"cart"}, lines : [1 .. n -> SplitLine], items : {<<>>},
                 total_amount : {0}, total_commission : {0}, order_total : {0},
                 payouts : {<<>>},
                 policy : [commission_enabled : BOOLEAN,
                           commission_percentage : SplitPcts]]

\* purchase_cart: totals and metadata of the session
SplitCheckout ==
    /\ sp.pc = "cart"
    /\ sp' = [sp EXCEPT !.pc = "session",
                        !.items = CartItemsData(sp.lines),
                        !.total_amount = CartTotal(sp.lines),
                        !.total_commission = CartCommission(sp.policy, sp.lines)]
    /\ UNCHANGED <<marketVars, lg, wh, co, ad, nm, fl>>

\* purchase_success_callback: the Order total and the payout of every seller
SplitSettle ==
    /\ sp.pc = "session"
    /\ sp' = [sp EXCEPT !.pc = "settled",
                        !.order_total = ItemsTotal(sp.items),
                        !.payouts =
                           IF sp.policy.commission_enabled
                           THEN [j \in 1 .. Len(PayoutSellers(sp.items)) |->
                                   SellerPayout(sp.policy, sp.items,
                                                PayoutSellers(sp.items)[j])]
                           ELSE <<>>]
    /\ UNCHANGED <<marketVars, lg, wh, co, ad, nm, fl>>

NextSplit == SplitCheckout \/ SplitSettle

SpecSplit == InitSplit /\ [][NextSplit]_vars

----------------------------------------------------------------------------
(* Properties *)

\* the lines a session was built for
SessionLines(s) ==
    IF sessions[s].purchase_type = "single" THEN 1 ELSE Len(sessions[s].cart_items)

OrdersOf(s) == {o \in db.orders : o.stripe_session_id = s}

ItemsOf(o) == {i \in db.items : i.order = o.id}

TransfersTo(s, sel) ==
    {i \in 1 .. Len(transfers) : transfers[i].sid = s /\ transfers[i].seller = sel}

\* No session ever has two persisted Orders and no Order has two OrderItems
\* of one line (the unique constraint on stripe_session_id at work).
NoDuplicateOrders ==
    \A s \in 1 .. Len(sessions) :
        /\ Cardinality(OrdersOf(s)) <= 1
        /\ \A o \in OrdersOf(s) : \A i, k \in ItemsOf(o) : i.line = k.line => i = k

\* C1: once settlement of a paid session has persisted an Order, that Order
\* is the only one of the session and it has exactly one OrderItem for every
\* line item embedded in the session.
C1_OneOrderWithEveryLine ==
    \A s \in 1 .. Len(sessions) : \A o \in OrdersOf(s) :
        /\ Cardinality(OrdersOf(s)) = 1
        /\ {i.line : i \in ItemsOf(o)} = 1 .. SessionLines(s)
        /\ Cardinality(ItemsOf(o)) = SessionLines(s)

\* a session that is not paid has no request past the payment check, no
\* Order in any transaction and no transfer
UnpaidUntouched ==
    \A s \in 1 .. Len(sessions) :
        sessions[s].payment_status # "paid" =>
            /\ \A p \in Procs : req[p].sid # s
            /\ OrdersOf(s) = {}
            /\ \A p \in Procs : \A o \in tx[p].orders : o.stripe_session_id # s
            /\ \A i \in 1 .. Len(transfers) : transfers[i].sid # s

\* a response "payment was not completed" comes with no change to any row,
\* any transfer or any cart
NotPaidChangesNothing ==
    (last' # last /\ last'.result = "not_paid") =>
        UNCHANGED <<db, tx, transfers, cart, req, sessions, nextId>>

\* C2: settlement invoked for a session whose payment status is not 'paid'
\* is a no-op: it creates no Order, OrderItem, notification or transfer and
\* leaves the cart as it was.
C2_UnpaidIsNoOp == []UnpaidUntouched /\ [][NotPaidChangesNothing]_vars

\* an unpaid session with a filled cart was sent to settlement by its buyer
C2_Witness ==
    /\ last.result = "not_paid"
    /\ last.sid \in 1 .. Len(sessions)
    /\ sessions[last.sid].payment_status = "unpaid"
    /\ last.user = sessions[last.sid].user_id
    /\ cart[last.user] # <<>>

\* C3: a session built with instant-split instructions gets no deferred
\* transfer at settlement.
C3_NoTransferAfterInstantSplit ==
    \A i \in 1 .. Len(transfers) :
        sessions[transfers[i].sid].payment_intent_data = NoSplit

\* C4: the payouts of all sellers plus the session's total commission equal
\* the Order's total_amount.
C4_MoneyBalances ==
    (sp.pc = "settled" /\ sp.policy.commission_enabled) =>
        SumSeq(sp.payouts) + sp.total_commission = sp.order_total

\* C5: commission plus seller amount is the gross, for every gross and policy.
C5_NoRoundingLeak ==
    lg.pc = "done" => lg.commission + lg.seller_amount = lg.gross

\* the exact commission lies on a half cent and both parts are positive
C5_Witness ==
    /\ lg.pc = "done"
    /\ lg.policy.commission_enabled
    /\ 2 * ((lg.gross * lg.policy.commission_percentage) % 10000) = 10000
    /\ lg.commission > 0
    /\ lg.seller_amount > 0

RoundHalfUp(num, den) ==
    LET q == num \div den
        r == num % den
    IN  IF 2 * r >= den THEN q + 1 ELSE q

\* C6: with commission enabled the commission is gross * percentage / 100
\* rounded half-up to the cent.
C6_RoundsHalfUp ==
    (lg.pc = "done" /\ lg.policy.commission_enabled) =>
        lg.commission = RoundHalfUp(lg.gross * lg.policy.commission_percentage, 10000)

\* C7: with the policy disabled the commission is 0 whatever the percentage,
\* and the seller amount is the full gross.
C7_DisabledMeansZero ==
    (lg.pc = "done" /\ ~lg.policy.commission_enabled) =>
        lg.commission = 0 /\ lg.seller_amount = lg.gross

\* a disabled policy with a positive percentage was applied to a positive gross
C7_Witness ==
    /\ lg.pc = "done"
    /\ ~lg.policy.commission_enabled
    /\ lg.policy.commission_percentage > 0
    /\ lg.gross > 0
    /\ lg.seller_amount = lg.gross

\* C8: order numbers generated by callers that run at the same time are
\* pairwise distinct, each with a six-digit sequence part.
C8_ConcurrentNumbersDistinct ==
    \A p, q \in Procs :
        (p # q /\ req[p].pc # "idle" /\ req[q].pc # "idle") =>
            /\ req[p].order_number # req[q].order_number
            /\ Len(req[p].order_number[2]) = 6

\* C9: when a settlement that stopped part-way is followed by one that runs
\* to its end, every seller of the session that is due a deferred transfer
\* (the session carries no instant split) has been sent exactly one: the
\* re-invocation issues the missing transfers and no others.
C9_ResumeSendsOnlyMissing ==
    ( /\ last.result = "created"
      /\ sessions[last.sid].purchase_type = "cart"
      /\ sessions[last.sid].payment_intent_data = NoSplit
      /\ settings.commission_enabled ) =>
        \A j \in 1 .. Len(PayoutSellers(sessions[last.sid].cart_items)) :
            LET sel == PayoutSellers(sessions[last.sid].cart_items)[j]
            IN  Cardinality(TransfersTo(last.sid, sel)) = 1

\* C10: a settlement that fails during the order-creation phase leaves no
\* Order and no OrderItem of its own persisted.
C10_FailedCreationLeavesNothing ==
    last.result = "error" =>
        /\ \A o \in db.orders : o.id # last.order
        /\ \A i \in db.items : i.order # last.order

----------------------------------------------------------------------------
(* Payout failures *)

TransfersOf(order, sel) ==
    {i \in 1 .. Len(transfers) : transfers[i].order = order /\ transfers[i].seller = sel}

\* the sellers of a cart session the payout loop calls stripe.Transfer.create for
DueSellers(s) ==
    {sel \in Sellers :
        /\ \E j \in 1 .. Len(PayoutSellers(sessions[s].cart_items)) :
              PayoutSellers(sessions[s].cart_items)[j] = sel
        /\ TransferDue(SellerPayout(settings, sessions[s].cart_items, sel), sel)}

\* C11: a failed transfer to one seller neither stops the transfer attempts
\* to the remaining sellers nor touches the Order: a request in or past the
\* payout loop still holds its completed Order with every OrderItem, and a
\* cart settlement that ran to its end has persisted that Order and has
\* attempted a transfer to every seller that is due one, whatever the
\* outcomes of the transfers were.
C11_PayoutFailuresIsolated ==
    /\ \A p \in Procs : req[p].pc \in {"payout", "finish"} =>
          /\ \E o \in tx[p].orders : o.id = req[p].order /\ o.status = "completed"
          /\ {i.line : i \in {x \in tx[p].items : x.order = req[p].order}}
                = 1 .. Len(sessions[req[p].sid].cart_items)
    /\ ( /\ last.result = "created"
         /\ sessions[last.sid].purchase_type = "cart"
         /\ settings.commission_enabled ) =>
          /\ \E o \in OrdersOf(last.sid) :
                /\ o.id = last.order
                /\ o.status = "completed"
                /\ {i.line : i \in ItemsOf(o)} = 1 .. Len(sessions[last.sid].cart_items)
          /\ \A sel \in DueSellers(last.sid) : TransfersOf(last.order, sel) # {}

\* a two-seller settlement ran to its end although the transfer to the first
\* seller of the loop failed; the second seller's transfer went through
C11_Witness ==
    /\ last.result = "created"
    /\ sessions[last.sid].purchase_type = "cart"
    /\ Len(PayoutSellers(sessions[last.sid].cart_items)) = 2
    /\ LET sellers == PayoutSellers(sessions[last.sid].cart_items)
       IN  /\ \E i \in TransfersOf(last.order, sellers[1]) :
                transfers[i].outcome = "insufficient_funds"
           /\ \E i \in TransfersOf(last.order, sellers[2]) :
                transfers[i].outcome = "ok"
    /\ \E o \in OrdersOf(last.sid) : o.status = "completed"

----------------------------------------------------------------------------
(* Catalogue changes while a buyer shops: the owner edits the price          *)
(* (edit_book, edit_course, edit_webinar, edit_service), a product is taken  *)
(* off sale (is_active through the product API or the admin), a product is   *)
(* deleted. purchase_cart reads the cart lines and their products in three   *)
(* loops of queries; under READ COMMITTED each loop sees what other requests *)
(* have committed by then.                                                   *)

\* the prices an owner sets a product to
CataloguePrices == [a |-> {1000, 1250}, b |-> {2550}]

UpdatedTitle(kind) == IF kind = "service" THEN "Service Updated!" ELSE "Book Updated!"

\* edit_book / edit_service: the owner saves the form with another price
edit_product(p, price) ==
    /\ product[p].exists
    /\ price \in CataloguePrices[p]
    /\ price # product[p].price
    /\ product' = [product EXCEPT ![p].price = price]
    /\ db' = [db EXCEPT !.notes = @ \cup
                {[user |-> product[p].seller, title |-> UpdatedTitle(product[p].kind),
                  order |-> 0]}]
    /\ UNCHANGED <<user, settings, cart, sessions, tx, req, transfers, nextId,
                   aborts, last, lg, sp, wh, co, ad, nm, fl>>

\* BookViewSet.partial_update by the owner, or the admin form: is_active off
deactivate_product(p) ==
    /\ product[p].exists
    /\ product[p].is_active
    /\ product' = [product EXCEPT ![p].is_active = FALSE]
    /\ UNCHANGED <<user, settings, cart, sessions, db, tx, req, transfers, nextId,
                   aborts, last, lg, sp, wh, co, ad, nm, fl>>

\* does every cart line still point at a product row (content_object is not None)
LinesResolve(c) == \A i \in 1 .. Len(c) : product[c[i].product].exists

\* purchase_cart, first loop: cart_items_data
CartCheckoutMeta(u) ==
    /\ co.pc = "idle"
    /\ u \in Shoppers
    /\ Len(sessions) < MaxSessions
    /\ cart[u] # <<>>
    /\ LinesResolve(cart[u])
    /\ co' = [CheckoutIdle EXCEPT !.pc = "totals", !.user = u,
                                  !.items = CartItemsData(CartLines(cart[u]))]
    /\ UNCHANGED <<user, settings, product, cart, sessions, db, tx, req, transfers,
                   nextId, aborts, last, lg, sp, wh, ad, nm, fl>>

\* purchase_cart, second loop: total_amount and total_commission
CartCheckoutTotals ==
    /\ co.pc = "totals"
    /\ co' = IF LinesResolve(cart[co.user])
             THEN [co EXCEPT !.pc = "session",
                      !.total_amount = CartTotal(CartLines(cart[co.user])),
                      !.total_commission =
                          CartCommission(settings, CartLines(cart[co.user]))]
             ELSE CheckoutIdle
    /\ UNCHANGED <<user, settings, product, cart, sessions, db, tx, req, transfers,
                   nextId, aborts, last, lg, sp, wh, ad, nm, fl>>

\* purchase_cart, third loop and stripe.checkout.Session.create
CartCheckoutSession ==
    /\ co.pc = "session"
    /\ Len(sessions) < MaxSessions
    /\ co' = CheckoutIdle
    /\ sessions' = IF LinesResolve(cart[co.user])
                   THEN Append(sessions,
                            CartSession(co.user, co.items, co.total_commission,
                                        CartLineItems(CartLines(cart[co.user]))))
                   ELSE sessions
    /\ UNCHANGED <<user, settings, product, cart, db, tx, req, transfers,
                   nextId, aborts, last, lg, sp, wh, ad, nm, fl>>

InitCatalogue ==
    /\ user = [u \in Users |-> IF u \in Sellers THEN Pending(u) ELSE BuyerProfile]
    /\ settings = [commission_enabled |-> TRUE, commission_percentage |-> 1000,
                   platform_stripe_account_id |-> <<"acct", 0>>]
    /\ product = ProductRows
    /\ cart = [u \in Shoppers |-> <<>>]
    /\ sessions = <<>>
    /\ db = EmptyRows
    /\ tx = [p \in Procs |-> EmptyRows]
    /\ req = [p \in Procs |-> IdleReq]
    /\ transfers = <<>>
    /\ nextId = 1
    /\ aborts = 0
    /\ last = Returned(0, 0, 0, "none")
    /\ lg = LedgerIdle
    /\ sp = SplitIdle
    /\ wh = HookIdle
    /\ co = CheckoutIdle
    /\ ad = AddIdle
    /\ nm = NumberIdle
    /\ fl = FailureIdle

NextCatalogue ==
    \/ \E p \in Products : add_to_cart(1, p)
    \/ \E p \in Products : \E price \in CataloguePrices[p] : edit_product(p, price)
    \/ \E p \in Products : deactivate_product(p)
    \/ \E p \in Products : delete_product(p)
    \/ CartCheckoutMeta(1)
    \/ CartCheckoutTotals
    \/ CartCheckoutSession
    \/ \E p \in Products : purchase_product(1, p)
    \/ Pay(1)
    \/ SettleBegin(1, 1, 1)
    \/ SettleInsert(1)
    \/ SettleItems(1)
    \/ SettlePayout(1)
    \/ SettleFinish(1)

SpecCatalogue == InitCatalogue /\ [][NextCatalogue]_vars

----------------------------------------------------------------------------
(* Prices and availability at checkout and at settlement *)

\* this step creates a checkout session of the cart of its buyer
CartSessionCreated ==
    /\ Len(sessions') = Len(sessions) + 1
    /\ sessions'[Len(sessions')].purchase_type = "cart"

\* C12: for a single purchase and for a cart purchase, the Order's
\* total_amount is the amount the checkout session charged and every
\* OrderItem's price is the unit price the session was built with, whatever
\* happened to the product price or the cart after the session was built.
C12_PricesFrozenAtCheckout ==
    \A o \in db.orders :
        /\ o.total_amount = sessions[o.stripe_session_id].amount_total
        /\ \A i \in ItemsOf(o) :
              i.price = sessions[o.stripe_session_id].line_items[i.line].unit_amount

\* C17: a cart checkout session is created only when every line of the cart
\* points at a product that exists and is active at that time.
C17_UnavailableProductBlocksCheckout ==
    [][ CartSessionCreated =>
          \A i \in 1 .. Len(cart[sessions'[Len(sessions')].user_id]) :
              LET p == cart[sessions'[Len(sessions')].user_id][i].product
              IN  product[p].exists /\ product[p].is_active ]_vars

\* C18: when a cart checkout session is created, the total purchase_cart
\* computed, the total of the session's line items and the total of the
\* embedded cart_items all equal the sum over the cart lines of the
\* product's price at that time times the quantity.
C18_CartTotalIsLive ==
    [][ CartSessionCreated =>
          LET s == sessions'[Len(sessions')]
              live == CartTotal(CartLines(cart[s.user_id]))
          IN  /\ co.total_amount = live
              /\ AmountTotal(s.line_items) = live
              /\ ItemsTotal(s.cart_items) = live ]_vars

----------------------------------------------------------------------------
(* Checkout under every payee configuration: sellers that never started,    *)
(* started or completed Stripe Connect onboarding, the platform payee set   *)
(* or unset, commission on or off, and a shopper who may be the seller of   *)
(* product a. The REST cart endpoint takes any product id.                  *)

\* CartViewSet.add_item: POST product_type, product_id, quantity
add_item(u, p, quantity) ==
    /\ u \in Shoppers
    /\ product[p].kind \in {"book", "course", "webinar"}
    /\ quantity \in 1 .. MaxQty
    /\ IF p \in CartProducts(cart[u])
       THEN /\ cart[u][LineOf(cart[u], p)].quantity + quantity <= MaxQty
            /\ cart' = [cart EXCEPT ![u][LineOf(cart[u], p)].quantity = @ + quantity]
       ELSE cart' = [cart EXCEPT ![u] = <<[product |-> p, quantity |-> quantity]>> \o @]
    /\ UNCHANGED <<user, settings, product, sessions, db, tx, req, transfers,
                   nextId, aborts, last, lg, sp, wh, co, ad, nm, fl>>

Profiles(u) == {BuyerProfile, Pending(u), Connected(u)}

InitCheckout ==
    /\ user \in {f \in [Users -> UNION {Profiles(u) : u \in Users}] :
                    /\ \A u \in Users : f[u] \in Profiles(u)
                    /\ f[1] # Pending(1)}
    /\ settings \in [commission_enabled : BOOLEAN,
                     commission_percentage : MarketPcts,
                     platform_stripe_account_id : {NoAccount, <<"acct", 0>>}]
    /\ \E owner \in {1, 2} : product = [ProductRows EXCEPT !.a.seller = owner]
    /\ cart = [u \in Shoppers |-> <<>>]
    /\ sessions = <<>>
    /\ db = EmptyRows
    /\ tx = [p \in Procs |-> EmptyRows]
    /\ req = [p \in Procs |-> IdleReq]
    /\ transfers = <<>>
    /\ nextId = 1
    /\ aborts = 0
    /\ last = Returned(0, 0, 0, "none")
    /\ lg = LedgerIdle
    /\ sp = SplitIdle
    /\ wh = HookIdle
    /\ co = CheckoutIdle
    /\ ad = AddIdle
    /\ nm = NumberIdle
    /\ fl = FailureIdle

NextCheckout ==
    \/ \E p \in Products : add_to_cart(1, p)
    \/ \E p \in Products, q \in 1 .. MaxQty : add_item(1, p, q)
    \/ purchase_cart(1)
    \/ \E p \in Products : purchase_product(1, p)

SpecCheckout == InitCheckout /\ [][NextCheckout]_vars

\* the sellers of the lines of a checkout session
SessionSellers(s) ==
    IF sessions[s].purchase_type = "single"
    THEN {product[sessions[s].product_id].seller}
    ELSE {sessions[s].cart_items[i].seller_id : i \in 1 .. Len(sessions[s].cart_items)}

\* C13: no checkout session, single or cart, is ever created while
\* commission is enabled and the platform payee id is unset.
C13_NoSessionWithoutPlatformPayee ==
    (settings.commission_enabled /\ settings.platform_stripe_account_id = NoAccount)
        => sessions = <<>>

\* C14: a checkout session that carries instant-split instructions has
\* exactly one seller, and that seller's Stripe Connect status is active.
C14_InstantSplitOnlyForActiveSeller ==
    \A s \in 1 .. Len(sessions) :
        sessions[s].payment_intent_data # NoSplit =>
            /\ Cardinality(SessionSellers(s)) = 1
            /\ \A sel \in SessionSellers(s) :
                  user[sel].stripe_connect_status = "active"

\* C15: no checkout session, single or cart, has a line whose seller has no
\* stripe_account_id.
C15_EverySellerHasPayeeId ==
    \A s \in 1 .. Len(sessions) : \A sel \in SessionSellers(s) :
        user[sel].stripe_account_id # NoAccount

\* C16: no checkout session, single or cart, has a line sold by its buyer.
C16_NoSelfPurchase ==
    \A s \in 1 .. Len(sessions) : sessions[s].user_id \notin SessionSellers(s)

----------------------------------------------------------------------------
(* stripe_webhook: provider events posted to the site *)

UnknownUser == 9

\* what a POST to the webhook carries: the Stripe-Signature header (absent,
\* not matching the payload, matching), the body (JSON or not), the event
\* type and metadata.user_id of the session (0: absent)
HookEvents ==
    [signature : {"none", "bad", "good"},
     payload   : {"invalid", "valid"},
     type      : {"checkout.session.completed", "payment_intent.created"},
     user_id   : {0} \cup Users \cup {UnknownUser}]

construct_event_unverified(e) ==
    IF e.payload # "valid" THEN "ValueError" ELSE "event"

\* stripe.Webhook.construct_event(payload, sig_header, STRIPE_WEBHOOK_SECRET)
construct_event(e) ==
    IF e.signature # "good" THEN "SignatureVerificationError"
    ELSE IF e.payload # "valid" THEN "ValueError"
    ELSE "event"

stripe_webhook(e) ==
    /\ e \in HookEvents
    /\ IF e.signature = "none"
         THEN /\ wh' = [wh EXCEPT !.event = e, !.status = 400]
              /\ db' = db
       ELSE IF construct_event(e) # "event"
         THEN /\ wh' = [wh EXCEPT !.event = e, !.status = 400]
              /\ db' = db
       ELSE IF e.type # "checkout.session.completed"
         THEN /\ wh' = [wh EXCEPT !.event = e, !.status = 200]
              /\ db' = db
       ELSE IF e.user_id = 0
         THEN /\ wh' = [wh EXCEPT !.event = e, !.status = 400]
              /\ db' = db
       ELSE IF e.user_id \notin Users
         THEN /\ wh' = [wh EXCEPT !.event = e, !.status = 404]
              /\ db' = db
       ELSE IF ~wh.account[e.user_id].registration_paid
         THEN /\ wh' = [wh EXCEPT !.event = e, !.status = 200,
                          !.account[e.user_id] =
                              [account_status |-> "active", registration_paid |-> TRUE]]
              /\ db' = [db EXCEPT !.notes = @ \cup
                          {[user |-> e.user_id, title |-> "Account Activated",
                            order |-> 0]}]
       ELSE /\ wh' = [wh EXCEPT !.event = e, !.status = 200]
            /\ db' = db
    /\ UNCHANGED <<user, settings, product, cart, sessions, tx, req, transfers,
                   nextId, aborts, last, lg, sp, co, ad, nm, fl>>

InitWebhook ==
    /\ MarketIdle
    /\ lg = LedgerIdle
    /\ sp = SplitIdle
    /\ wh = HookIdle
    /\ co = CheckoutIdle
    /\ ad = AddIdle
    /\ nm = NumberIdle
    /\ fl = FailureIdle

NextWebhook == \E e \in HookEvents : stripe_webhook(e)

SpecWebhook == InitWebhook /\ [][NextWebhook]_vars

\* C19: a webhook request whose event has no signature, a signature that
\* does not verify or a payload that does not parse is answered 400 and
\* changes no user column and creates no notification or order; so only a
\* verified event changes state.
C19_UnverifiedEventsChangeNothing ==
    [][ ( /\ wh' # wh \/ db' # db
          /\ wh'.event.signature # "good" \/ wh'.event.payload # "valid" ) =>
            /\ wh'.account = wh.account
            /\ db' = db
            /\ wh'.status = 400 ]_vars

\* a well-formed checkout.session.completed event for an existing, not yet
\* activated user came with a signature that does not verify, and the user
\* is still not activated
C19_Witness ==
    /\ wh.event # <<>>
    /\ wh.event.signature = "bad"
    /\ wh.event.payload = "valid"
    /\ wh.event.type = "checkout.session.completed"
    /\ wh.event.user_id \in Users
    /\ wh.account[wh.event.user_id] = NewAccount
    /\ wh.status = 400
    /\ \E u \in Users : wh.account[u].registration_paid

----------------------------------------------------------------------------
(* Two paid checkout sessions of one buyer in the same month, settled by    *)
(* requests that run at the same time                                       *)

Paid(session) == [session EXCEPT !.payment_status = "paid"]

\* the buyer has paid for product a bought on its own, and for product b
\* either bought on its own or checked out from the cart
InitRace ==
    /\ user = [u \in Users |-> IF u \in Sellers THEN Pending(u) ELSE BuyerProfile]
    /\ settings \in [commission_enabled : BOOLEAN,
                     commission_percentage : MarketPcts,
                     platform_stripe_account_id : {<<"acct", 0>>}]
    /\ product = ProductRows
    /\ \E second \in {"single", "cart"} :
         LET line == <<[product |-> "b", quantity |-> 1]>>
             lines == CartLines(line)
         IN  /\ cart = [u \in Shoppers |-> IF second = "cart" THEN line ELSE <<>>]
             /\ sessions =
                  << Paid(ProductSession(1, "a")),
                     IF second = "cart"
                     THEN Paid(CartSession(1, CartItemsData(lines),
                                           CartCommission(settings, lines),
                                           CartLineItems(lines)))
                     ELSE Paid(ProductSession(1, "b")) >>
    /\ db = EmptyRows
    /\ tx = [p \in Procs |-> EmptyRows]
    /\ req = [p \in Procs |-> IdleReq]
    /\ transfers = <<>>
    /\ nextId = 1
    /\ aborts = 0
    /\ last = Returned(0, 0, 0, "none")
    /\ lg = LedgerIdle
    /\ sp = SplitIdle
    /\ wh = HookIdle
    /\ co = CheckoutIdle
    /\ ad = AddIdle
    /\ nm = NumberIdle
    /\ fl = FailureIdle

NextRace ==
    \/ \E p \in Procs, s \in {1, 2} : SettleBegin(p, 1, s)
    \/ \E p \in Procs : SettleInsert(p)
    \/ \E p \in Procs : SettleItems(p)
    \/ \E p \in Procs : SettlePayout(p)
    \/ \E p \in Procs : SettleFinish(p)

SpecRace == InitRace /\ [][NextRace]_vars

\* C20: whenever purchase_success_callback, called by the session's buyer for
\* a paid session, has returned, a completed Order of that session is
\* persisted, whatever the transfers did and whatever other settlements ran
\* at the same time.
C20_PaidSessionGetsItsOrder ==
    ( /\ last.result # "none"
      /\ last.user = sessions[last.sid].user_id
      /\ sessions[last.sid].payment_status = "paid" ) =>
        \E o \in OrdersOf(last.sid) : o.status = "completed"

----------------------------------------------------------------------------
(* Transfers per seller *)

\* C21: for one checkout session no seller is ever sent a second deferred
\* transfer, neither within one settlement nor by repeated or racing
\* settlements of the session.
C21_AtMostOneTransferPerSeller ==
    \A s \in 1 .. Len(sessions) : \A sel \in Sellers :
        Cardinality(TransfersTo(s, sel)) <= 1

----------------------------------------------------------------------------
(* Order.generate_order_number, step by step: the scan of the month's       *)
(* numbers, the loop over sequential candidates, the loop over random       *)
(* candidates. Every exists() query sees the rows committed by then, so a   *)
(* candidate that was free at the scan may be taken when it is tried.       *)

\* order numbers in the table when the call starts
LoopPool ==
    {FormatOrderNumber(Period, 1), FormatOrderNumber(Period, 2),
     FormatOrderNumber("2026-10", 7)}

\* values of random.randint(1, 999999) the fallback loop is tried with
RandomDraws == {1, 2, 999999}

AfterFallback_retry == "fallback"

\* raise ValueError("Unable to generate unique order number ...")
AfterFallback == "raised"

InitNumberLoop ==
    /\ MarketIdle
    /\ lg = LedgerIdle
    /\ sp = SplitIdle
    /\ wh = HookIdle
    /\ co = CheckoutIdle
    /\ ad = AddIdle
    /\ fl = FailureIdle
    /\ \E v \in SUBSET LoopPool : nm = [NumberIdle EXCEPT !.pc = "scan", !.visible = v]

\* existing_orders, max_seq, next_seq
NumberScan ==
    /\ nm.pc = "scan"
    /\ LET existing == {n \in nm.visible : n[1] = Period}
       IN  nm' = [nm EXCEPT !.pc = "sequential",
                     !.next_seq = IF existing # {}
                                  THEN Max({SeqPart(n) : n \in existing} \cup {0}) + 1
                                  ELSE 1]
    /\ UNCHANGED <<marketVars, lg, sp, wh, co, ad, fl>>

\* one round of: for attempt in range(max_attempts)
NumberTrySequential(taken) ==
    /\ nm.pc = "sequential"
    /\ nm.attempt < max_attempts
    /\ LET order_number == FormatOrderNumber(Period, nm.next_seq + nm.attempt)
       IN  nm' = IF order_number \in nm.visible \/ taken
                 THEN [nm EXCEPT !.attempt = @ + 1]
                 ELSE [nm EXCEPT !.pc = "returned", !.result = order_number]
    /\ UNCHANGED <<marketVars, lg, sp, wh, co, ad, fl>>

\* the sequential loop ran out: on to the random fallback
NumberStartFallback ==
    /\ nm.pc = "sequential"
    /\ nm.attempt >= max_attempts
    /\ nm' = [nm EXCEPT !.pc = "fallback", !.attempt = 0]
    /\ UNCHANGED <<marketVars, lg, sp, wh, co, ad, fl>>

\* one round of: for _ in range(max_fallback_attempts)
NumberTryFallback(random_number, taken) ==
    /\ nm.pc = "fallback"
    /\ nm.attempt < max_fallback_attempts
    /\ LET order_number == FormatOrderNumber(Period, random_number)
       IN  nm' = IF order_number \in nm.visible \/ taken
                 THEN [nm EXCEPT !.attempt = @ + 1]
                 ELSE [nm EXCEPT !.pc = "returned", !.result = order_number]
    /\ UNCHANGED <<marketVars, lg, sp, wh, co, ad, fl>>

\* the fallback loop ran out
NumberGiveUp ==
    /\ nm.pc = "fallback"
    /\ nm.attempt >= max_fallback_attempts
    /\ nm' = [nm EXCEPT !.pc = AfterFallback, !.attempt = 0]
    /\ UNCHANGED <<marketVars, lg, sp, wh, co, ad, fl>>

NextNumberLoop ==
    \/ NumberScan
    \/ \E taken \in BOOLEAN : NumberTrySequential(taken)
    \/ NumberStartFallback
    \/ \E r \in RandomDraws, taken \in BOOLEAN : NumberTryFallback(r, taken)
    \/ NumberGiveUp

\* the call is running code: it takes its next step
SpecNumberLoop == InitNumberLoop /\ [][NextNumberLoop]_vars /\ WF_vars(NextNumberLoop)

\* C22: generate_order_number always ends, with a number or with the error:
\* it tries at most max_attempts sequential and at most max_fallback_attempts
\* random candidates, whichever numbers exist and whichever are taken
\* meanwhile.
C22_NumberingTerminates ==
    /\ [](nm.pc = "sequential" => nm.attempt <= max_attempts)
    /\ [](nm.pc = "fallback" => nm.attempt <= max_fallback_attempts)
    /\ <>(nm.pc \in {"returned", "raised"})

\* every sequential and every random candidate was taken: the call raised
C22_Witness ==
    /\ nm.pc = "raised"
    /\ nm.visible # {}
    /\ nm.result = NoNumber

----------------------------------------------------------------------------
(* Order.generate_order_number as one call with no concurrent writer *)

\* order numbers of this month, of the month before and of last year
NumberPool ==
    {FormatOrderNumber(Period, 1), FormatOrderNumber(Period, 2),
     FormatOrderNumber(Period, 41), FormatOrderNumber(Period, 999999),
     FormatOrderNumber("2026-10", 5), FormatOrderNumber("2026-10", 700000),
     FormatOrderNumber("2025-11", 3)}

InitNumber ==
    /\ MarketIdle
    /\ lg = LedgerIdle
    /\ sp = SplitIdle
    /\ wh = HookIdle
    /\ co = CheckoutIdle
    /\ ad = AddIdle
    /\ fl = FailureIdle
    /\ \E v \in SUBSET NumberPool : nm = [NumberIdle EXCEPT !.pc = "call", !.visible = v]

NumberCall ==
    /\ nm.pc = "call"
    /\ \E n \in generate_order_number(nm.visible) :
          nm' = [nm EXCEPT !.pc = "called", !.result = n]
    /\ UNCHANGED <<marketVars, lg, sp, wh, co, ad, fl>>

NextNumber == NumberCall

SpecNumber == InitNumber /\ [][NextNumber]_vars

\* the sequence parts of the order numbers of a period
SequencesOf(visible, period) == {DigitsToInt(n[2]) : n \in {x \in visible : x[1] = period}}

\* C28: with no concurrent writer generate_order_number returns the number of
\* the current year-month whose sequence part is one more than the largest
\* sequence of that year-month, and 000001 when that year-month has no order
\* number yet; order numbers of other months play no part.
C28_SequencePerMonth ==
    nm.pc = "called" =>
        /\ nm.result[1] = Period
        /\ IF SequencesOf(nm.visible, Period) = {}
           THEN nm.result[2] = <<0, 0, 0, 0, 0, 1>>
           ELSE DigitsToInt(nm.result[2]) =
                  1 + CHOOSE m \in SequencesOf(nm.visible, Period) :
                          \A k \in SequencesOf(nm.visible, Period) : k <= m

\* the month before holds a larger sequence than this month, and the call
\* returned this month's largest plus one
C28_Witness ==
    /\ nm.pc = "called"
    /\ FormatOrderNumber(Period, 41) \in nm.visible
    /\ FormatOrderNumber(Period, 999999) \notin nm.visible
    /\ FormatOrderNumber("2026-10", 700000) \in nm.visible
    /\ nm.result = FormatOrderNumber(Period, 42)

----------------------------------------------------------------------------
(* The cart after settlement *)

SettledProducts(s) ==
    {sessions[s].cart_items[i].object_id : i \in 1 .. Len(sessions[s].cart_items)}

\* C23: a settlement that ends with its Order created takes out of the
\* buyer's cart only the lines of the settled products when the purchase was
\* a cart purchase (a line of a product that was not in the session stays),
\* and leaves the cart as it was when the purchase was a single product.
C23_OnlySettledLinesLeaveCart ==
    [][ (last' # last /\ last'.result = "created") =>
          IF sessions[last'.sid].purchase_type = "single"
          THEN cart' = cart
          ELSE \A i \in 1 .. Len(cart[last'.user]) :
                  cart[last'.user][i].product \notin SettledProducts(last'.sid) =>
                      \E k \in 1 .. Len(cart'[last'.user]) :
                          cart'[last'.user][k] = cart[last'.user][i] ]_vars

----------------------------------------------------------------------------
(* Cart contents *)

\* C24: no cart ever holds a line whose product is sold by the cart's owner.
C24_NoOwnProductInCart ==
    \A u \in DOMAIN cart : \A i \in 1 .. Len(cart[u]) :
        product[cart[u][i].product].seller # u

----------------------------------------------------------------------------
(* Routing of the sellers' shares *)

\* what a seller of a session is owed: the seller's gross less the commission
SellerShare(s, sel) ==
    IF sessions[s].purchase_type = "single"
    THEN get_seller_amount(settings, sessions[s].amount_total)
    ELSE SellerPayout(settings, sessions[s].cart_items, sel)

RoutedBySplit(s, sel) ==
    /\ sessions[s].payment_intent_data # NoSplit
    /\ sessions[s].payment_intent_data.destination = user[sel].stripe_account_id

\* C25: when a settlement has ended with its Order created, every seller of
\* the session who has a payee id and a positive share has that share routed
\* by exactly one mechanism: the instant split of the session, or a deferred
\* transfer attempted at settlement.
C25_EveryShareRoutedOnce ==
    last.result = "created" =>
        \A sel \in SessionSellers(last.sid) :
            ( /\ user[sel].stripe_account_id # NoAccount
              /\ SellerShare(last.sid, sel) > 0 ) =>
                (RoutedBySplit(last.sid, sel) <=> TransfersTo(last.sid, sel) = {})

----------------------------------------------------------------------------
(* add_to_cart, statement by statement, for two requests of one user.  Every
   request is one transaction (ATOMIC_REQUESTS) at READ COMMITTED: a SELECT
   sees the rows committed by then, an INSERT or UPDATE waits for the
   uncommitted write of another transaction to the same row. *)

MaxAdds == 3

QuantityOf(c, p) == IF p \in CartProducts(c) THEN c[LineOf(c, p)].quantity ELSE 0

InFlight(p) == {r \in Procs : ad.req[r].pc # "idle" /\ ad.req[r].product = p}

\* the product lookup and the own-product check
AddBegin(r, u, p) ==
    /\ ad.req[r].pc = "idle"
    /\ product[p].exists /\ product[p].is_active
    /\ product[p].seller # u
    /\ ad.answered[p] + Cardinality(InFlight(p)) < MaxAdds
    /\ ad' = [ad EXCEPT !.req[r] = [pc |-> "get_or_create", product |-> p,
                                    quantity |-> 0]]
    /\ UNCHANGED <<marketVars, lg, sp, wh, co, nm, fl>>

\* CartItem.objects.get_or_create(..., defaults={'quantity': 1}): the line is
\* read if a committed one exists; otherwise it is inserted, after waiting for
\* an uncommitted insert of the same (cart, product) by the other request
AddGetOrCreate(r, u) ==
    /\ ad.req[r].pc = "get_or_create"
    /\ LET p == ad.req[r].product IN
         IF p \in CartProducts(cart[u])
         THEN ad' = [ad EXCEPT !.req[r].pc = "found",
                               !.req[r].quantity = QuantityOf(cart[u], p)]
         ELSE /\ \A q \in Procs \ {r} :
                    ~(ad.req[q].pc = "created" /\ ad.req[q].product = p)
              /\ ad' = [ad EXCEPT !.req[r].pc = "created",
                                  !.req[r].quantity = 1]
    /\ UNCHANGED <<marketVars, lg, sp, wh, co, nm, fl>>

\* cart_item.quantity += 1; cart_item.save(): the UPDATE writes the quantity
\* computed from the value this request read, after waiting for the row lock
AddSave(r) ==
    /\ ad.req[r].pc = "found"
    /\ \A q \in Procs \ {r} :
           ~(ad.req[q].pc = "saved" /\ ad.req[q].product = ad.req[r].product)
    /\ ad' = [ad EXCEPT !.req[r].pc = "saved", !.req[r].quantity = @ + 1]
    /\ UNCHANGED <<marketVars, lg, sp, wh, co, nm, fl>>

\* the JsonResponse with success True; the request's transaction commits
AddRespond(r, u) ==
    /\ ad.req[r].pc \in {"created", "saved"}
    /\ LET p == ad.req[r].product
           q == ad.req[r].quantity IN
         /\ cart' = [cart EXCEPT ![u] =
                        IF ad.req[r].pc = "created"
                        THEN <<[product |-> p, quantity |-> q]>> \o @
                        ELSE [@ EXCEPT ![LineOf(@, p)].quantity = q]]
         /\ ad' = [ad EXCEPT !.req[r] = AddIdle.req[r],
                             !.answered[p] = @ + 1]
    /\ UNCHANGED <<user, settings, product, sessions, db, tx, req, transfers,
                   nextId, aborts, last, lg, sp, wh, co, nm, fl>>

InitCart ==
    /\ MarketIdle
    /\ lg = LedgerIdle
    /\ sp = SplitIdle
    /\ wh = HookIdle
    /\ co = CheckoutIdle
    /\ ad = AddIdle
    /\ nm = NumberIdle
    /\ fl = FailureIdle

NextCart ==
    \E r \in Procs, u \in Shoppers :
        \/ \E p \in Products : AddBegin(r, u, p)
        \/ AddGetOrCreate(r, u)
        \/ AddSave(r)
        \/ AddRespond(r, u)

SpecCart == InitCart /\ [][NextCart]_vars

\* C26: a cart has at most one line per product, and whenever no add is in
\* progress for a product the quantity of its line is the number of add_to_cart
\* calls for it that answered with success.
C26_QuantityCountsAdds ==
    \A u \in Shoppers :
        /\ \A i, j \in 1 .. Len(cart[u]) :
               cart[u][i].product = cart[u][j].product => i = j
        /\ \A p \in Products :
               InFlight(p) = {} => QuantityOf(cart[u], p) = ad.answered[p]

----------------------------------------------------------------------------
(* The except branch of the payout loop: what one failed transfer logs and
   tells the seller.  The provider's message is the set of phrases it holds. *)

Phrases == {"No such destination", "no such destination",
            "platform_account_required", "Insufficient", "insufficient",
            "funds"}

\* str.lower() on a phrase
Lower(phrase) ==
    CASE phrase = "No such destination" -> "no such destination"
      [] phrase = "Insufficient" -> "insufficient"
      [] OTHER -> phrase

\* phrase in error_msg
Contains(message, phrase) == phrase \in message

\* phrase in error_msg.lower()
LowerContains(message, phrase) == \E x \in message : Lower(x) = phrase

FailureKinds == {"no_such_destination", "insufficient_funds", "other"}

\* the if / elif / else over error_msg
ClassifyFailure(message) ==
    IF Contains(message, "No such destination")
       \/ Contains(message, "platform_account_required")
    THEN "no_such_destination"
    ELSE IF LowerContains(message, "insufficient") /\ LowerContains(message, "funds")
    THEN "insufficient_funds"
    ELSE "other"

\* the logger call of each branch
KindLevel(kind) ==
    CASE kind = "no_such_destination" -> "critical"
      [] kind = "insufficient_funds" -> "warning"
      [] OTHER -> "critical"

\* every log level a failure of this kind is written at
FailureLevels(kind) == {"error", KindLevel(kind)}

InitFailure ==
    /\ MarketIdle
    /\ lg = LedgerIdle
    /\ sp = SplitIdle
    /\ wh = HookIdle
    /\ co = CheckoutIdle
    /\ ad = AddIdle
    /\ nm = NumberIdle
    /\ \E m \in SUBSET Phrases : fl = [FailureIdle EXCEPT !.pc = "raised", !.message = m]

\* except stripe.error.StripeError as e: logger.error(...)
FailureCaught ==
    /\ fl.pc = "raised"
    /\ fl' = [fl EXCEPT !.pc = "caught", !.levels = @ \cup {"error"}]
    /\ UNCHANGED <<marketVars, lg, sp, wh, co, ad, nm>>

\* the branch taken and its logger call
FailureLogged ==
    /\ fl.pc = "caught"
    /\ LET kind == ClassifyFailure(fl.message) IN
         fl' = [fl EXCEPT !.pc = "logged", !.kind = kind,
                          !.levels = @ \cup {KindLevel(kind)}]
    /\ UNCHANGED <<marketVars, lg, sp, wh, co, ad, nm>>

\* the branch's Notification.objects.create(user=seller, ...)
FailureNotified ==
    /\ fl.pc = "logged"
    /\ fl' = [fl EXCEPT !.pc = "notified", !.title = PayoutTitle(fl.kind)]
    /\ UNCHANGED <<marketVars, lg, sp, wh, co, ad, nm>>

NextFailure == FailureCaught \/ FailureLogged \/ FailureNotified

SpecFailure == InitFailure /\ [][NextFailure]_vars

\* C27: once a failed transfer has been handled it has one of the three
\* kinds, and neither its notification title nor the log levels it was written
\* at are those of either other kind.
C27_KindsDifferInTitleAndSeverity ==
    fl.pc = "notified" =>
        /\ fl.kind \in FailureKinds
        /\ \A k \in FailureKinds \ {fl.kind} :
               /\ PayoutTitle(k) # fl.title
               /\ FailureLevels(k) # fl.levels

----------------------------------------------------------------------------
(* Orders and their items *)

RECURSIVE ItemRowsTotal(_)
\* the sum of price times quantity over a set of OrderItem rows
ItemRowsTotal(rows) ==
    IF rows = {} THEN 0
    ELSE LET i == CHOOSE x \in rows : TRUE
         IN  i.price * i.quantity + ItemRowsTotal(rows \ {i})

\* C29: every persisted Order has at least one OrderItem, and its total_amount
\* is the sum of price times quantity over its OrderItems.
C29_OrdersHaveTheirItems ==
    \A o \in db.orders :
        /\ ItemsOf(o) # {}
        /\ o.total_amount = ItemRowsTotal(ItemsOf(o))

----------------------------------------------------------------------------
(* Whose Order a settlement creates *)

\* every Order, committed or still in a request's transaction, belongs to the
\* user recorded in its checkout session
OwnersMatch ==
    \A o \in db.orders \cup UNION {tx[p].orders : p \in Procs} :
        o.user = sessions[o.stripe_session_id].user_id

\* a response "invalid payment session" comes with no change to any row, any
\* transfer or any cart
WrongUserChangesNothing ==
    (last' # last /\ last'.result = "wrong_user") =>
        UNCHANGED <<db, tx, transfers, cart, req, sessions, nextId>>

\* C30: settlement invoked by a logged-in user other than the one recorded in
\* the session creates no Order, OrderItem, notification or transfer and
\* changes no cart, and every Order's owner is the user recorded in its
\* session.
C30_OnlyTheBuyerSettles == []OwnersMatch /\ [][WrongUserChangesNothing]_vars

\* a paid session that has no Order yet was sent to settlement by a user who
\* is not its buyer, while the buyer's cart is still filled
C30_Witness ==
    /\ last.result = "wrong_user"
    /\ last.sid \in 1 .. Len(sessions)
    /\ sessions[last.sid].payment_status = "paid"
    /\ last.user # sessions[last.sid].user_id
    /\ OrdersOf(last.sid) = {}
    /\ cart[sessions[last.sid].user_id] # <<>>

====
